---------------------------- MODULE Spec2Model ----------------------------
(***************************************************************************)
(* A model of the lyric-mosaic page component (Home) of lyricface: its     *)
(* React state, the image loading callbacks, the preview/export canvases   *)
(* and the renderToCanvas routine that paints them.                        *)
(*                                                                         *)
(* Numbers.  The source computes in IEEE doubles; the model computes the   *)
(* same expressions exactly, in fixed-point integers:                      *)
(*   scale2      = 2 * scale          (scale is 1, 1.5, 2 or 4)            *)
(*   spacing20   = 20 * spacing       (slider step 0.05)                   *)
(*   contrast20  = 20 * contrast      (slider step 0.05)                   *)
(*   underlay100 = 100 * underlay     (slider step 0.01)                   *)
(*   detail10    = 10 * detailFactor                                       *)
(*   x, y, stepX, stepY               in 1/2000 pixel                      *)
(*   baseHeight2, sampleY2            in 1/2 pixel                         *)
(*   r2, g2, b2  = 2 * (r, g, b)      (r is the mean of two bytes)         *)
(*   intensity1000, alpha100000, size20000 in the unit their name gives.   *)
(*                                                                         *)
(* Not modelled: isDragging (it only styles the drop zone) and the page's  *)
(* markup outside the preview, the controls and the two canvases.          *)
(***************************************************************************)
EXTENDS Integers, Sequences, FiniteSets, TLC

(***************************************************************************)
(* Bounds of the model.                                                    *)
(***************************************************************************)
\* The number of user events (file selections, control changes, lyric
\* edits, window resizes, downloads, leaving the page) in one run.
MaxEvents == 2

(***************************************************************************)
(* Inputs.  Files the user can pick, with the natural size the decoded     *)
(* image reports (an SVG without intrinsic size reports 0 x 0).            *)
(***************************************************************************)
NoFile == "none"

Files == {"a", "b", "z", "t", NoFile}

\* file.type, as <<type, subtype>>
FileType(f) ==
    CASE f = "t" -> <<"text", "plain">>
      [] f = "z" -> <<"image", "svg+xml">>
      [] OTHER -> <<"image", "png">>

naturalWidth(f) ==
    CASE f = "a" -> 60 [] f = "b" -> 40 [] OTHER -> 0

naturalHeight(f) ==
    CASE f = "a" -> 5 [] f = "b" -> 5 [] OTHER -> 0

\* container widths the layout can give the preview column
ClientWidths == {200, 281}

\* window.devicePixelRatio, doubled
DevicePixelRatios2 == {2, 3}

\* what canvas.getContext("2d") answers for the target and the scratch canvas
ContextModes == {"ok", "noContext", "noTempContext"}

FontSizes == {18, 36}
Spacings20 == {24, 26}
Contrasts20 == {20, 36}
Underlays100 == {0, 8}

WhiteSpace == {" ", "\n", "\t"}

\* values the textarea can take
LyricsInputs ==
    { <<>>, <<" ", "\n">>, <<"a", "b">>, <<" ", "a", "\n", "\t", "b", " ">> }

DEFAULT_LYRICS == <<
    "E", "v", "e", "r", "y", " ", "w", "h", "i", "s", "p", "e", "r", "e",
    "d", " ", "l", "i", "n", "e", " ", "b", "e", "c", "o", "m", "e", "s",
    " ", "a", " ", "f", "i", "e", "l", "d", " ", "o", "f", " ", "l", "i",
    "g", "h", "t", ".", " ", "T", "h", "e", " ", "c", "h", "o", "r", "u",
    "s", " ", "b", "l", "o", "o", "m", "s", ",", " ", "t", "h", "e", " ",
    "s", "i", "l", "e", "n", "c", "e", " ", "f", "a", "d", "e", "s", ",",
    " ", "a", "n", "d", " ", "t", "h", "e", " ", "s", "t", "o", "r", "y",
    " ", "s", "t", "a", "y", "s", "." >>

DefaultSettings ==
    [fontSize |-> 18, spacing20 |-> 24, contrast20 |-> 20,
     monochrome |-> FALSE, underlay100 |-> 8]

(***************************************************************************)
(* Small arithmetic.                                                       *)
(***************************************************************************)
Min(a, b) == IF a < b THEN a ELSE b

Max(a, b) == IF a > b THEN a ELSE b

clamp(value, min, max) == Min(Max(value, min), max)

\* Math.floor of p / q for q > 0
floorDiv(p, q) == p \div q

(***************************************************************************)
(* textCharacters: lyrics.replace(/\s+/g, " ").trim(), split into          *)
(* characters, or the placeholder.                                         *)
(***************************************************************************)
RECURSIVE skipWhiteSpace(_)
skipWhiteSpace(s) ==
    IF s # <<>> /\ Head(s) \in WhiteSpace THEN skipWhiteSpace(Tail(s)) ELSE s

\* lyrics.replace(/\s+/g, " "), computed by halves: a run of white space
\* that spans the cut is one run
RECURSIVE replaceWhiteSpaceRuns(_)
replaceWhiteSpaceRuns(s) ==
    IF Len(s) = 0 THEN <<>>
    ELSE IF Len(s) = 1
    THEN (IF s[1] \in WhiteSpace THEN <<" ">> ELSE s)
    ELSE LET m == Len(s) \div 2
             left == replaceWhiteSpaceRuns(SubSeq(s, 1, m))
             right == replaceWhiteSpaceRuns(SubSeq(s, m + 1, Len(s)))
         IN  IF s[m] \in WhiteSpace /\ s[m + 1] \in WhiteSpace
             THEN left \o Tail(right)
             ELSE left \o right

RECURSIVE trimEnd(_)
trimEnd(s) ==
    IF s # <<>> /\ s[Len(s)] \in WhiteSpace
    THEN trimEnd(SubSeq(s, 1, Len(s) - 1))
    ELSE s

trim(s) == trimEnd(skipWhiteSpace(s))

sanitized(lyrics) == trim(replaceWhiteSpaceRuns(lyrics))

\* the one-character string U+2022 (a bullet), written in ASCII
Placeholder == "U+2022"

textCharacters(lyrics) ==
    IF Len(sanitized(lyrics)) > 0 THEN sanitized(lyrics) ELSE <<Placeholder>>

(***************************************************************************)
(* The image element and the pixels drawImage produces from it.  The       *)
(* browser's resampling is not part of the program; the model resamples by *)
(* nearest neighbour from a source whose pixels cycle through a palette.   *)
(***************************************************************************)
NoImage == [file |-> NoFile, url |-> 0]

Palette(f) ==
    IF f = "b"
    THEN << <<255, 255, 255>>, <<0, 0, 0>>, <<90, 140, 201>> >>
    ELSE << <<10, 20, 30>>, <<200, 101, 51>>, <<255, 254, 250>> >>

sourcePixel(f, col, row) == Palette(f)[((col + row) % 3) + 1]

\* the pixel (px, py) of the image drawn over a width x height surface
drawnPixel(f, px, py, width, height) ==
    sourcePixel(f, floorDiv(px * naturalWidth(f), width),
                   floorDiv(py * naturalHeight(f), height))

(***************************************************************************)
(* renderToCanvas, lines 72-89: the surface and the scratch pixel buffer.  *)
(***************************************************************************)
\* Math.floor(previewWidth * scale)
baseWidthOf(previewWidth, scale2) == floorDiv(previewWidth * scale2, 2)

\* a variant that floors after scaling: Math.floor(previewWidth / aspect * scale)
baseHeight2Of_floorAfterScale(previewWidth, imageSize, scale2) ==
    IF imageSize.width = 0 \/ imageSize.height = 0 THEN 0
    ELSE 2 * floorDiv(previewWidth * imageSize.height * scale2,
                      2 * imageSize.width)

\* Math.floor(previewWidth / aspect) * scale, doubled; aspect is
\* imageSize.width / imageSize.height.  With a zero side the quotient is
\* NaN, 0 or Infinity, and a canvas keeps 0 of each.
baseHeight2Of(previewWidth, imageSize, scale2) ==
    IF imageSize.width = 0 \/ imageSize.height = 0 THEN 0
    ELSE floorDiv(previewWidth * imageSize.height, imageSize.width) * scale2

\* what a canvas keeps of a number assigned to its width or height, and
\* getImageData of its sw and sh: the integer part
toLong2(halves) == halves \div 2

\* tempCtx.getImageData(0, 0, baseWidth, baseHeight).data.length
imageDataLength(e) == e.baseWidth * toLong2(e.baseHeight2) * 4

\* imageData[i] ?? 0
imageDataAt(e, i) ==
    IF i < 0 \/ i >= imageDataLength(e) THEN 0
    ELSE IF i % 4 = 3 THEN 255
    ELSE drawnPixel(e.imageElement.file, (i \div 4) % e.baseWidth,
                    (i \div 4) \div e.baseWidth,
                    e.baseWidth, toLong2(e.baseHeight2))[(i % 4) + 1]

(***************************************************************************)
(* renderToCanvas, lines 100-103: the grid steps.                          *)
(***************************************************************************)
\* Math.max(0.5, Math.min(detailBoost, 1)), times ten
detailFactor10(detailBoost10) == Max(5, Min(detailBoost10, 10))

\* scaledFont * settings.spacing * detailFactor, in 1/2000 pixel
stepXOf(settings, scale2, detailBoost10) ==
    5 * settings.fontSize * scale2 * settings.spacing20
      * detailFactor10(detailBoost10)

\* scaledFont * settings.spacing * 1.4 * detailFactor, in 1/2000 pixel
stepYOf(settings, scale2, detailBoost10) ==
    7 * settings.fontSize * scale2 * settings.spacing20
      * detailFactor10(detailBoost10)

(***************************************************************************)
(* renderToCanvas, lines 109-136: sampling and styling of one cell.        *)
(***************************************************************************)
\* Math.min(baseWidth - 1, Math.max(0, Math.floor(x)))
sampleXOf(e, x) == Min(e.baseWidth - 1, Max(0, floorDiv(x, 2000)))

\* Math.min(baseHeight - 1, Math.max(0, Math.floor(y))), doubled
sampleY2Of(e, y) == Min(e.baseHeight2 - 2, Max(0, 2 * floorDiv(y, 2000)))

\* (sampleY * baseWidth + sampleX) * 4
pixelIndexOf(e, sampleX, sampleY2) == 2 * (sampleY2 * e.baseWidth + 2 * sampleX)

\* (Math.min(baseHeight - 1, sampleY + 1) * baseWidth
\*   + Math.min(baseWidth - 1, sampleX + 1)) * 4
altIndexOf(e, sampleX, sampleY2) ==
    2 * (Min(e.baseHeight2 - 2, sampleY2 + 2) * e.baseWidth
         + 2 * Min(e.baseWidth - 1, sampleX + 1))

\* 0.2126 * r + 0.7152 * g + 0.0722 * b, in 1/20000
luminance20000(r2, g2, b2) == 2126 * r2 + 7152 * g2 + 722 * b2

\* clamp((luminance - 128) * settings.contrast + 128, 0, 255), in 1/400000
contrasted400000(lum20000, contrast20) ==
    clamp((lum20000 - 128 * 20000) * contrast20 + 128 * 400000,
          0, 255 * 400000)

\* 1000 * t^0.65 at t = 0, 0.01, ... , 1
Pow065Table == <<
    0, 50, 79, 102, 123, 143, 161, 178, 194, 209, 224, 238, 252, 265, 279,
    291, 304, 316, 328, 340, 351, 363, 374, 385, 395, 406, 417, 427, 437,
    447, 457, 467, 477, 486, 496, 505, 515, 524, 533, 542, 551, 560, 569,
    578, 586, 595, 604, 612, 621, 629, 637, 646, 654, 662, 670, 678, 686,
    694, 702, 710, 717, 725, 733, 741, 748, 756, 763, 771, 778, 786, 793,
    800, 808, 815, 822, 829, 837, 844, 851, 858, 865, 872, 879, 886, 893,
    900, 907, 913, 920, 927, 934, 941, 947, 954, 961, 967, 974, 980, 987,
    993, 1000 >>

\* Math.pow(t, 0.65) for t in [0, 1] given in thousandths: the table,
\* interpolated linearly
pow065(t1000) ==
    LET i == t1000 \div 10
        f == t1000 % 10
    IN  IF i >= 100 THEN 1000
        ELSE Pow065Table[i + 1]
             + ((Pow065Table[i + 2] - Pow065Table[i + 1]) * f) \div 10

\* Math.pow(1 - contrasted / 255, 0.65), in thousandths
intensity1000(c400000) == pow065((255 * 400000 - c400000) \div (255 * 400))

\* Math.round(300 + intensity * 600)
weightOf(i1000) == 300 + (6 * i1000 + 5) \div 10

\* scaledFont * (0.85 + intensity * 0.8), in 1/20000 pixel
sizeOf(settings, scale2, i1000) ==
    settings.fontSize * scale2 * (8500 + 8 * i1000)

\* 0.45 + intensity * 0.55, in 1/100000
alphaOf(i1000) == 45000 + 55 * i1000

\* Math.round of a mean of two bytes, given doubled
round2(v2) == (v2 + 1) \div 2

\* a variant whose monochrome ink is opaque
fillStyleOf_monoOpaque(settings, r2, g2, b2, alpha) ==
    IF settings.monochrome
    THEN <<26, 26, 26, 100000>>
    ELSE <<round2(r2), round2(g2), round2(b2), alpha>>

\* settings.monochrome ? rgba(26, 26, 26, alpha)
\*                     : rgba(round(r), round(g), round(b), alpha)
fillStyleOf(settings, r2, g2, b2, alpha) ==
    IF settings.monochrome
    THEN <<26, 26, 26, alpha>>
    ELSE <<round2(r2), round2(g2), round2(b2), alpha>>

\* textCharacters[charIndex % textCharacters.length], a newline as a space
safeCharOf(chars, charIndex) ==
    LET nextChar == chars[(charIndex % Len(chars)) + 1]
    IN  IF nextChar = "\n" THEN " " ELSE nextChar

\* lines 117-125: the two taps and their channel sums
sampleTaps(e, sampleX, sampleY2, pixelIndex, altIndex) ==
    [sampleX |-> sampleX, sampleY2 |-> sampleY2,
     pixelIndex |-> pixelIndex, altIndex |-> altIndex,
     rgb2 |-> <<imageDataAt(e, pixelIndex) + imageDataAt(e, altIndex),
                imageDataAt(e, pixelIndex + 1) + imageDataAt(e, altIndex + 1),
                imageDataAt(e, pixelIndex + 2) + imageDataAt(e, altIndex + 2)>>]

\* lines 109-115 at the sample point
sampleAt(e, sampleX, sampleY2) ==
    sampleTaps(e, sampleX, sampleY2, pixelIndexOf(e, sampleX, sampleY2),
               altIndexOf(e, sampleX, sampleY2))

\* lines 109-125: the sample for the cell at (x, y)
sampleOf(e, x, y) == sampleAt(e, sampleXOf(e, x), sampleY2Of(e, y))

\* lines 127-133
intensityOf(e, rgb2) ==
    intensity1000(contrasted400000(luminance20000(rgb2[1], rgb2[2], rgb2[3]),
                                   e.settings.contrast20))

\* lines 134-146: the fillText issued, with the sample it was styled from
glyphOf(e, x, y, charIndex, sample, i1000) ==
    [op |-> "fillText",
     text |-> safeCharOf(e.textCharacters, charIndex),
     x |-> x, y |-> y,
     weight |-> weightOf(i1000),
     size |-> sizeOf(e.settings, e.scale2, i1000),
     fillStyle |-> fillStyleOf(e.settings, sample.rgb2[1], sample.rgb2[2],
                               sample.rgb2[3], alphaOf(i1000)),
     sample |-> sample]

styledCell(e, x, y, charIndex, sample) ==
    glyphOf(e, x, y, charIndex, sample, intensityOf(e, sample.rgb2))

\* the body of the inner loop for the cell at (x, y)
cellOf(e, x, y, charIndex) == styledCell(e, x, y, charIndex, sampleOf(e, x, y))

(***************************************************************************)
(* renderToCanvas, lines 105-148: the grid traversal.                      *)
(***************************************************************************)
RECURSIVE innerLoop(_, _, _, _)
innerLoop(e, x, y, charIndex) ==
    IF x < e.baseWidth * 2000
    THEN <<cellOf(e, x, y, charIndex)>>
         \o innerLoop(e, x + e.stepX, y, charIndex + 1)
    ELSE <<>>

\* a variant that restarts the lyrics at every row
RECURSIVE outerLoop_restart(_, _, _)
outerLoop_restart(e, y, charIndex) ==
    IF y < e.baseHeight2 * 1000
    THEN innerLoop(e, 0, y, 0) \o outerLoop_restart(e, y + e.stepY, 0)
    ELSE <<>>

RECURSIVE outerLoop(_, _, _)
outerLoop(e, y, charIndex) ==
    IF y < e.baseHeight2 * 1000
    THEN LET row == innerLoop(e, 0, y, charIndex)
         IN  row \o outerLoop(e, y + e.stepY, charIndex + Len(row))
    ELSE <<>>

(***************************************************************************)
(* Canvases.  A canvas is its width, its height, the drawing operations    *)
(* issued on it since its bitmap was last reset, and (for the properties)  *)
(* the arguments and closure of the render call that last sized it.        *)
(***************************************************************************)
NoCall ==
    [previewWidth |-> 0, imageSize |-> [width |-> 0, height |-> 0],
     scale2 |-> 0, detailBoost10 |-> 0, settings |-> DefaultSettings,
     lyrics |-> <<>>, imageElement |-> NoImage]

\* a canvas element as mounted: the HTML default size, nothing drawn
BlankCanvas == [width |-> 300, height |-> 150, ops |-> <<>>, call |-> NoCall]

\* a null ref
NullCanvas == [width |-> -1, height |-> -1, ops |-> <<>>, call |-> NoCall]

\* a variant of the early return that does not look at imageSize
missingPrecondition_noSizeCheck(canvas, c) ==
    \/ canvas = NullCanvas
    \/ c.imageElement = NoImage

\* line 68: the early return
missingPrecondition(canvas, c) ==
    \/ canvas = NullCanvas
    \/ c.imageElement = NoImage
    \/ c.imageSize.width = 0
    \/ c.imageSize.height = 0

\* lines 72-77 and 82-84: the canvas after canvas.width = baseWidth and
\* canvas.height = baseHeight, which reset its bitmap
resizedCanvas(c, scale2, detailBoost10) ==
    [width |-> baseWidthOf(c.previewWidth, scale2),
     height |-> toLong2(baseHeight2Of(c.previewWidth, c.imageSize, scale2)),
     ops |-> <<>>,
     call |-> [previewWidth |-> c.previewWidth, imageSize |-> c.imageSize,
               scale2 |-> scale2, detailBoost10 |-> detailBoost10,
               settings |-> c.settings, lyrics |-> c.lyrics,
               imageElement |-> c.imageElement]]

\* the values the drawing code reads
renderEnv(c, scale2, detailBoost10) ==
    [imageElement |-> c.imageElement,
     baseWidth |-> baseWidthOf(c.previewWidth, scale2),
     baseHeight2 |-> baseHeight2Of(c.previewWidth, c.imageSize, scale2),
     settings |-> c.settings,
     textCharacters |-> textCharacters(c.lyrics),
     scale2 |-> scale2,
     stepX |-> stepXOf(c.settings, scale2, detailBoost10),
     stepY |-> stepYOf(c.settings, scale2, detailBoost10)]

\* a variant that composites the underlay only when underlay > 0
backgroundOps_underlayIfPositive(e) ==
    << [op |-> "clearRect", width |-> e.baseWidth, height2 |-> e.baseHeight2],
       [op |-> "fillRect", fillStyle |-> "#FAFAFA",
        width |-> e.baseWidth, height2 |-> e.baseHeight2] >>
    \o (IF e.settings.underlay100 > 0
        THEN << [op |-> "drawImage", image |-> e.imageElement,
                 globalAlpha100 |-> e.settings.underlay100,
                 width |-> e.baseWidth, height2 |-> e.baseHeight2] >>
        ELSE <<>>)

\* lines 91-97: clearRect, the background fill, the underlay
backgroundOps(e) ==
    << [op |-> "clearRect", width |-> e.baseWidth, height2 |-> e.baseHeight2],
       [op |-> "fillRect", fillStyle |-> "#FAFAFA",
        width |-> e.baseWidth, height2 |-> e.baseHeight2],
       [op |-> "drawImage", image |-> e.imageElement,
        globalAlpha100 |-> e.settings.underlay100,
        width |-> e.baseWidth, height2 |-> e.baseHeight2] >>

\* lines 91-148: everything drawn on the target, in order
drawOps(e) == backgroundOps(e) \o outerLoop(e, 0, 0)

\* tempCtx.getImageData(0, 0, baseWidth, baseHeight) throws IndexSizeError
\* when a side of the rectangle is zero
getImageDataThrows(e) == e.baseWidth = 0 \/ toLong2(e.baseHeight2) = 0

\* renderToCanvas(canvas, scale, detailBoost) within the closure c (the
\* image element, imageSize, previewWidth, settings and lyrics it reads):
\* how the call ended and the canvas it leaves
renderToCanvas(canvas, scale2, detailBoost10, c, context) ==
    IF missingPrecondition(canvas, c)
    THEN [outcome |-> "noop", canvas |-> canvas]
    ELSE IF context = "noContext"
    THEN [outcome |-> "noContext",
          canvas |-> resizedCanvas(c, scale2, detailBoost10)]
    ELSE IF context = "noTempContext"
    THEN [outcome |-> "noTempContext",
          canvas |-> resizedCanvas(c, scale2, detailBoost10)]
    ELSE IF getImageDataThrows(renderEnv(c, scale2, detailBoost10))
    THEN [outcome |-> "throws",
          canvas |-> resizedCanvas(c, scale2, detailBoost10)]
    ELSE [outcome |-> "painted",
          canvas |-> [resizedCanvas(c, scale2, detailBoost10) EXCEPT
                        !.ops = drawOps(renderEnv(c, scale2, detailBoost10))]]

(***************************************************************************)
(* The state of the page.                                                  *)
(***************************************************************************)
VARIABLES
    imageRef,           \* imageRef.current: the image element, or NoImage
    imageSrc,           \* the object URL of the loaded image, 0 for null
    imageSize,          \* [width, height]
    lyrics,             \* the textarea's text, a sequence of characters
    settings,           \* CanvasSettings
    processed,          \* the render-complete flag
    previewWidth,       \* the base width of a render
    presentKey,         \* the child AnimatePresence has mounted: 0 for the
                        \* "empty" notice, else the key (an object URL) of
                        \* the motion.div holding the preview canvas
    previewCanvas,      \* the preview canvas element; previewCanvasRef.current
                        \* is this canvas while presentKey # 0, else null
    hdCanvas,           \* the hidden export canvas (hdCanvasRef.current)
    loading,            \* image elements whose load has not completed
    nextUrl,            \* the next object URL URL.createObjectURL returns
    revoked,            \* object URLs passed to URL.revokeObjectURL
    mounted,            \* Home is mounted
    downloads,          \* clicks on the generated download link
    devicePixelRatio2,  \* window.devicePixelRatio, doubled
    context,            \* what getContext("2d") answers in this browser
    lastRender,         \* the latest renderToCanvas call: its number, its
                        \* target and how it ended
    events              \* user events so far

vars ==
    <<imageRef, imageSrc, imageSize, lyrics, settings, processed,
      previewWidth, presentKey, previewCanvas, hdCanvas, loading, nextUrl,
      revoked, mounted, downloads, devicePixelRatio2, context, lastRender,
      events>>

\* lines 168-169: Math.max(Math.min(clientWidth, 820), 280)
resizedWidth(clientWidth) == Max(Min(clientWidth, 820), 280)

\* lines 22-39, then the mount effects: resize() has measured the container
Init ==
    /\ imageRef = NoImage
    /\ imageSrc = 0
    /\ imageSize = [width |-> 0, height |-> 0]
    /\ lyrics = DEFAULT_LYRICS
    /\ settings = DefaultSettings
    /\ processed = FALSE
    /\ \E clientWidth \in ClientWidths :
           previewWidth = resizedWidth(clientWidth)
    /\ presentKey = 0
    /\ previewCanvas = NullCanvas
    /\ hdCanvas = BlankCanvas
    /\ loading = {}
    /\ nextUrl = 1
    /\ revoked = {}
    /\ mounted = TRUE
    /\ downloads = 0
    /\ devicePixelRatio2 \in DevicePixelRatios2
    /\ context \in ContextModes
    /\ lastRender = [n |-> 0, target |-> "none", outcome |-> "none"]
    /\ events = 0

\* lines 157-160: Math.min(2, window.devicePixelRatio || 1), doubled
previewScale2(dpr2) == Min(4, IF dpr2 = 0 THEN 2 ELSE dpr2)

\* previewCanvasRef.current
previewCanvasRef == IF presentKey # 0 THEN previewCanvas ELSE NullCanvas

\* a variant of the cleanup that releases nothing
revokeCleanup_never(src, urls) == urls

\* lines 176-182: the cleanup of the effect on imageSrc, run when imageSrc
\* changes (with the value it had) and when Home unmounts
revokeCleanup(src, urls) == IF src # 0 THEN urls \cup {src} ELSE urls

\* lines 153-163: the preview effect, run with the state c of the render it
\* belongs to: whether it called renderToCanvas, how that ended, the
\* preview canvas afterwards and whether it reached setProcessed(true)
previewEffect(src, c, canvas) ==
    IF src = 0 \/ canvas = NullCanvas
    THEN [called |-> FALSE, outcome |-> "none", canvas |-> canvas,
          setProcessed |-> FALSE]
    ELSE LET r == renderToCanvas(canvas, previewScale2(devicePixelRatio2),
                                 7, c, context)
         IN  [called |-> TRUE, outcome |-> r.outcome, canvas |-> r.canvas,
              setProcessed |-> r.outcome # "throws"]

\* The re-render React performs after a handler has updated state on which
\* the effects depend, and the effects of that commit.  src and c are the
\* new state; flag is processed as the handler left it.  An exception thrown
\* by an effect unmounts Home, whose effect cleanups then run.
Rerender(src, c, flag) ==
    LET eff == previewEffect(src, c, previewCanvasRef)
        released == IF src # imageSrc THEN revokeCleanup(imageSrc, revoked)
                    ELSE revoked
    IN  /\ previewCanvas' = IF eff.called THEN eff.canvas ELSE previewCanvas
        /\ processed' = IF eff.setProcessed THEN TRUE ELSE flag
        /\ lastRender' = IF eff.called
                         THEN [n |-> lastRender.n + 1, target |-> "preview",
                               outcome |-> eff.outcome]
                         ELSE lastRender
        /\ mounted' = (eff.outcome # "throws")
        /\ revoked' = IF eff.outcome = "throws"
                      THEN revokeCleanup(src, released)
                      ELSE released

closure ==
    [imageElement |-> imageRef, imageSize |-> imageSize,
     previewWidth |-> previewWidth, settings |-> settings, lyrics |-> lyrics]

(***************************************************************************)
(* Image selection and loading.                                            *)
(***************************************************************************)
\* lines 46-59 (called from handleInputChange and from onDrop), up to
\* img.src = objectUrl
handleFile(file) ==
    /\ mounted
    /\ events < MaxEvents
    /\ events' = events + 1
    /\ IF file = NoFile \/ FileType(file)[1] # "image"
       THEN UNCHANGED <<loading, nextUrl>>
       ELSE /\ loading' = loading \cup {[file |-> file, url |-> nextUrl]}
            /\ nextUrl' = nextUrl + 1
    /\ UNCHANGED <<imageRef, imageSrc, imageSize, lyrics, settings, processed,
                   previewWidth, presentKey, previewCanvas, hdCanvas, revoked,
                   mounted, downloads, devicePixelRatio2, context, lastRender>>

\* lines 52-57: img.onload, and the re-render it causes.  The state setters
\* of an unmounted component do nothing.
imgOnload(img) ==
    /\ img \in loading
    /\ loading' = loading \ {img}
    /\ imageRef' = img
    /\ IF mounted
       THEN /\ imageSize' = [width |-> naturalWidth(img.file),
                             height |-> naturalHeight(img.file)]
            /\ imageSrc' = img.url
            /\ Rerender(img.url,
                        [closure EXCEPT !.imageElement = img,
                                        !.imageSize = imageSize'],
                        FALSE)
       ELSE UNCHANGED <<imageSize, imageSrc, previewCanvas, processed,
                        lastRender, mounted, revoked>>
    /\ UNCHANGED <<lyrics, settings, previewWidth, presentKey, hdCanvas,
                   nextUrl, downloads, devicePixelRatio2, context, events>>

\* lines 297-324: AnimatePresence mode="wait" keeps the child it has mounted
\* until that child's exit animation ends, and only then mounts the child
\* of the current key, with a new canvas element
exitComplete ==
    /\ mounted
    /\ presentKey # imageSrc
    /\ presentKey' = imageSrc
    /\ previewCanvas' = BlankCanvas
    /\ UNCHANGED <<imageRef, imageSrc, imageSize, lyrics, settings, processed,
                   previewWidth, hdCanvas, loading, nextUrl, revoked, mounted,
                   downloads, devicePixelRatio2, context, lastRender, events>>

(***************************************************************************)
(* The controls.  setSettings always stores a new object, so the preview   *)
(* effect runs again even when the value is the one already set.           *)
(***************************************************************************)
setSettings(next) ==
    /\ mounted
    /\ events < MaxEvents
    /\ events' = events + 1
    /\ settings' = next
    /\ Rerender(imageSrc, [closure EXCEPT !.settings = next], processed)
    /\ UNCHANGED <<imageRef, imageSrc, imageSize, lyrics, previewWidth,
                   presentKey, hdCanvas, loading, nextUrl, downloads,
                   devicePixelRatio2, context>>

\* lines 347-352
setFontSize(value) == setSettings([settings EXCEPT !.fontSize = value])

\* lines 370-375
setSpacing(value) == setSettings([settings EXCEPT !.spacing20 = value])

\* lines 393-398
setContrast(value) == setSettings([settings EXCEPT !.contrast20 = value])

\* lines 416-421
setUnderlay(value) == setSettings([settings EXCEPT !.underlay100 = value])

\* lines 428-433
toggleMonochrome ==
    setSettings([settings EXCEPT !.monochrome = ~settings.monochrome])

\* line 278: the textarea's onChange; textCharacters and renderToCanvas are
\* recomputed, and the preview effect runs
setLyrics(value) ==
    /\ mounted
    /\ events < MaxEvents
    /\ events' = events + 1
    /\ value # lyrics
    /\ lyrics' = value
    /\ Rerender(imageSrc, [closure EXCEPT !.lyrics = value], processed)
    /\ UNCHANGED <<imageRef, imageSrc, imageSize, settings, previewWidth,
                   presentKey, hdCanvas, loading, nextUrl, downloads,
                   devicePixelRatio2, context>>

\* lines 166-170: the window's resize listener.  Setting the width it
\* already has re-renders nothing.
resize(clientWidth) ==
    /\ mounted
    /\ events < MaxEvents
    /\ events' = events + 1
    /\ previewWidth' = resizedWidth(clientWidth)
    /\ IF previewWidth' # previewWidth
       THEN Rerender(imageSrc, [closure EXCEPT !.previewWidth = previewWidth'],
                     processed)
       ELSE UNCHANGED <<previewCanvas, processed, lastRender, mounted, revoked>>
    /\ UNCHANGED <<imageRef, imageSrc, imageSize, lyrics, settings,
                   presentKey, hdCanvas, loading, nextUrl, downloads,
                   devicePixelRatio2, context>>

\* lines 184-193: the export.  An exception from renderToCanvas ends the
\* click handler before the link is made.
handleDownload ==
    /\ mounted
    /\ events < MaxEvents
    /\ events' = events + 1
    /\ IF imageSrc = 0
       THEN UNCHANGED <<hdCanvas, lastRender, downloads>>
       ELSE LET r == renderToCanvas(hdCanvas, 8, 10, closure, context)
            IN  /\ hdCanvas' = r.canvas
                /\ lastRender' = [n |-> lastRender.n + 1, target |-> "hd",
                                  outcome |-> r.outcome]
                /\ downloads' = IF r.outcome = "throws" THEN downloads
                                ELSE downloads + 1
    /\ UNCHANGED <<imageRef, imageSrc, imageSize, lyrics, settings, processed,
                   previewWidth, presentKey, previewCanvas, loading, nextUrl,
                   revoked, mounted, devicePixelRatio2, context>>

\* leaving the page: the effect cleanups run (lines 173 and 177-181)
unmount ==
    /\ mounted
    /\ events < MaxEvents
    /\ events' = events + 1
    /\ mounted' = FALSE
    /\ revoked' = revokeCleanup(imageSrc, revoked)
    /\ UNCHANGED <<imageRef, imageSrc, imageSize, lyrics, settings, processed,
                   previewWidth, presentKey, previewCanvas, hdCanvas, loading,
                   nextUrl, downloads, devicePixelRatio2, context, lastRender>>

Next ==
    \/ \E file \in Files : handleFile(file)
    \/ \E img \in loading : imgOnload(img)
    \/ exitComplete
    \/ \E value \in FontSizes : setFontSize(value)
    \/ \E value \in Spacings20 : setSpacing(value)
    \/ \E value \in Contrasts20 : setContrast(value)
    \/ \E value \in Underlays100 : setUnderlay(value)
    \/ toggleMonochrome
    \/ \E value \in LyricsInputs : setLyrics(value)
    \/ \E clientWidth \in ClientWidths : resize(clientWidth)
    \/ handleDownload
    \/ unmount

Spec == Init /\ [][Next]_vars

(***************************************************************************)
(* Vocabulary of the properties.                                           *)
(***************************************************************************)
Canvases == {previewCanvas, hdCanvas}

\* a render has drawn on the canvas since its bitmap was last reset
Painted(canvas) == canvas.ops # <<>>

IsGlyph(o) == o.op = "fillText"

Glyphs(canvas) == SelectSeq(canvas.ops, IsGlyph)

\* the preview shows the current image, settings, lyrics and width
PreviewClean ==
    /\ presentKey # 0
    /\ Painted(previewCanvas)
    /\ previewCanvas.call.imageElement = imageRef
    /\ previewCanvas.call.imageSize = imageSize
    /\ previewCanvas.call.settings = settings
    /\ previewCanvas.call.lyrics = lyrics
    /\ previewCanvas.call.previewWidth = previewWidth

\* nothing is in flight: no load is pending and no exit animation running
Settled == loading = {} /\ presentKey = imageSrc

(***************************************************************************)
(* C1.  After an image has loaded, and after every later change of the     *)
(* image, the settings, the lyrics or the preview width, the preview is    *)
(* eventually rendered with the latest values and processed becomes true.  *)
(* Stated on the states where only a new user event can still happen: a    *)
(* page with a usable image and a working 2D context that has settled      *)
(* shows a clean preview.                                                  *)
(***************************************************************************)
C1_SettledPreviewIsClean ==
    (/\ mounted
     /\ imageSrc # 0
     /\ imageSize.width # 0
     /\ imageSize.height # 0
     /\ context = "ok"
     /\ Settled)
    => (processed /\ PreviewClean)

(***************************************************************************)
(* C2.  A render call whose precondition is missing is a silent no-op.     *)
(***************************************************************************)
RenderCalled == lastRender'.n # lastRender.n

\* the state the call read has no image or an image with a zero side
NoUsableImageRead ==
    imageRef' = NoImage \/ imageSize'.width = 0 \/ imageSize'.height = 0

NoContext == context # "ok"

CallLeftNoTrace ==
    /\ previewCanvas' = previewCanvas
    /\ hdCanvas' = hdCanvas
    /\ mounted' = mounted
    /\ lastRender'.outcome \notin {"throws", "painted"}

\* C2 as claimed: with no usable image or no 2D context, a render call
\* leaves the target's dimensions and contents unchanged and raises nothing.
C2_MissingPreconditionIsNoOp ==
    [][(RenderCalled /\ (NoUsableImageRead \/ NoContext)) => CallLeftNoTrace]_vars

\* the size renderToCanvas gives its target, from the values of the call
SizedBlank(canvas, target) ==
    /\ canvas.ops = <<>>
    /\ canvas.width =
         (previewWidth' * (IF target = "hd" THEN 8
                           ELSE previewScale2(devicePixelRatio2))) \div 2
    /\ canvas.height =
         (((previewWidth' * imageSize'.height) \div imageSize'.width)
            * (IF target = "hd" THEN 8
               ELSE previewScale2(devicePixelRatio2))) \div 2

\* C2 as amended: with no usable image a render call changes nothing and
\* raises nothing; with a usable image and no 2D context (of the target or
\* of the scratch canvas) it raises nothing and paints nothing, and has
\* already set the target's width and height, which resets the target.
C2_NoOpUnlessContextMissing ==
    [][RenderCalled =>
         /\ NoUsableImageRead => CallLeftNoTrace
         /\ (~NoUsableImageRead /\ NoContext) =>
              /\ mounted' = mounted
              /\ lastRender'.outcome \in {"noContext", "noTempContext"}
              /\ IF lastRender'.target = "hd"
                 THEN /\ SizedBlank(hdCanvas', "hd")
                      /\ previewCanvas' = previewCanvas
                 ELSE /\ SizedBlank(previewCanvas', "preview")
                      /\ hdCanvas' = hdCanvas]_vars

\* an export was attempted with a usable image and no 2D context
C2_Witness ==
    /\ lastRender.target = "hd"
    /\ lastRender.outcome \in {"noContext", "noTempContext"}
    /\ hdCanvas.call.imageElement = imageRef
    /\ hdCanvas.width # BlankCanvas.width

(***************************************************************************)
(* The render a canvas was last sized by, as the drawing code saw it.      *)
(***************************************************************************)
callEnv(canvas) ==
    renderEnv(canvas.call, canvas.call.scale2, canvas.call.detailBoost10)

Rendered(canvas) == canvas.call # NoCall

ceilDiv(p, q) == (p + q - 1) \div q

\* Math.floor(previewWidth / aspect) of the call, aspect = width / height
flooredHeight(call) ==
    (call.previewWidth * call.imageSize.height) \div call.imageSize.width

(***************************************************************************)
(* C3.  The glyph of the k-th visited cell is stream[k mod N].             *)
(***************************************************************************)
\* every character of the text with the blank it collapses to, and whether
\* it survives: a character that is not whitespace does, and of a run of
\* whitespace the first does unless the run starts or ends the text
Marked(s) ==
    [i \in 1..Len(s) |->
        [ch |-> IF s[i] \in WhiteSpace THEN " " ELSE s[i],
         keep |-> \/ s[i] \notin WhiteSpace
                  \/ /\ i > 1
                     /\ s[i - 1] \notin WhiteSpace
                     /\ \E j \in (i + 1)..Len(s) : s[j] \notin WhiteSpace]]

Kept(m) == m.keep

\* the lyrics with whitespace runs collapsed and trimmed, as characters, or
\* the placeholder when nothing is left
Stream(s) ==
    LET kept == SelectSeq(Marked(s), Kept)
    IN  IF kept = <<>> THEN <<Placeholder>>
        ELSE [k \in 1..Len(kept) |-> kept[k].ch]

\* the glyphs are those of a row-major traversal of rows x cols cells, each
\* cell drawing one glyph, the k-th (from 0) being stream[k mod N]
GlyphsFollow(glyphs, stream, cols, rows, e) ==
    /\ Len(stream) > 0
    /\ Len(glyphs) = rows * cols
    /\ \A k \in 0..(Len(glyphs) - 1) :
         /\ glyphs[k + 1].text = stream[(k % Len(stream)) + 1]
         /\ glyphs[k + 1].x = (k % cols) * e.stepX
         /\ glyphs[k + 1].y = (k \div cols) * e.stepY

GlyphsFollowStream(canvas, e) ==
    GlyphsFollow(Glyphs(canvas), Stream(canvas.call.lyrics),
                 ceilDiv(e.baseWidth * 2000, e.stepX),
                 ceilDiv(e.baseHeight2 * 1000, e.stepY), e)

\* C3: in every render that paints, the k-th visited cell (row-major, k
\* from 0 and never reset at a row start) draws exactly one glyph, which is
\* stream[k mod N]; stream is the lyrics with whitespace runs collapsed and
\* trimmed, or the single placeholder, so N is never 0.
C3_GlyphsCycleThroughStream ==
    \A canvas \in Canvases :
        Painted(canvas) => GlyphsFollowStream(canvas, callEnv(canvas))

\* a preview of several rows whose lyrics start with whitespace, hold text
\* and are shorter than the number of cells
C3_Witness ==
    /\ Painted(previewCanvas)
    /\ previewCanvas.call.lyrics # <<>>
    /\ previewCanvas.call.lyrics[1] \in WhiteSpace
    /\ \E i \in 1..Len(previewCanvas.call.lyrics) :
           previewCanvas.call.lyrics[i] \notin WhiteSpace
    /\ Len(Glyphs(previewCanvas)) > Len(previewCanvas.call.lyrics)
    /\ Glyphs(previewCanvas)[Len(Glyphs(previewCanvas))].y > 0

(***************************************************************************)
(* C4.  The dimensions of the surface.                                     *)
(***************************************************************************)
\* the export's dimensions are 4 times those of a render at scale 1
ExportIsFourTimesScaleOne ==
    /\ Rendered(hdCanvas) =>
         /\ hdCanvas.width = 4 * hdCanvas.call.previewWidth
         /\ hdCanvas.height = 4 * flooredHeight(hdCanvas.call)
    /\ (/\ Rendered(hdCanvas)
        /\ Rendered(previewCanvas)
        /\ previewCanvas.call.scale2 = 2
        /\ previewCanvas.call.previewWidth = hdCanvas.call.previewWidth
        /\ previewCanvas.call.imageSize = hdCanvas.call.imageSize) =>
         /\ hdCanvas.width = 4 * previewCanvas.width
         /\ hdCanvas.height = 4 * previewCanvas.height

\* C4 as claimed: a surface rendered at scale s has width
\* floor(baseWidth * s) and height floor(baseWidth / aspect) * s, and the
\* export's dimensions are 4 times the dimensions at scale 1.
C4_SurfaceDimensions ==
    /\ \A canvas \in Canvases :
         Rendered(canvas) =>
           /\ canvas.width =
                (canvas.call.previewWidth * canvas.call.scale2) \div 2
           /\ 2 * canvas.height = flooredHeight(canvas.call) * canvas.call.scale2
    /\ ExportIsFourTimesScaleOne

\* C4 as amended: the height is floor(baseWidth / aspect) * s with its
\* fraction dropped, which differs from the claimed height when s is 1.5
\* and floor(baseWidth / aspect) is odd; the rest is as claimed.
C4_SurfaceDimensionsTruncated ==
    /\ \A canvas \in Canvases :
         Rendered(canvas) =>
           /\ canvas.width =
                (canvas.call.previewWidth * canvas.call.scale2) \div 2
           /\ canvas.height =
                (flooredHeight(canvas.call) * canvas.call.scale2) \div 2
    /\ ExportIsFourTimesScaleOne

\* a preview rendered at scale 1.5 whose floor(baseWidth / aspect) is odd
C4_Witness ==
    /\ Painted(previewCanvas)
    /\ previewCanvas.call.scale2 = 3
    /\ flooredHeight(previewCanvas.call) % 2 = 1

(***************************************************************************)
(* C5.  Monochrome changes nothing but the colour.                         *)
(***************************************************************************)
\* what the same render call draws with settings.monochrome toggled
toggledOps(call) ==
    drawOps(renderEnv([call EXCEPT !.settings.monochrome = ~@],
                      call.scale2, call.detailBoost10))

ColourOf(glyph) == <<glyph.fillStyle[1], glyph.fillStyle[2], glyph.fillStyle[3]>>

\* the sampled colour as the fill style carries it: the channel means,
\* each rounded to an integer
SampledColour(glyph) ==
    <<(glyph.sample.rgb2[1] + 1) \div 2, (glyph.sample.rgb2[2] + 1) \div 2,
      (glyph.sample.rgb2[3] + 1) \div 2>>

Ink == <<26, 26, 26>>

SameButColour(ops, others, monochrome) ==
    /\ Len(ops) = Len(others)
    /\ \A k \in 1..Len(ops) :
         IF IsGlyph(ops[k])
         THEN /\ IsGlyph(others[k])
              /\ ops[k].text = others[k].text
              /\ ops[k].x = others[k].x
              /\ ops[k].y = others[k].y
              /\ ops[k].fillStyle[4] = others[k].fillStyle[4]
              /\ ops[k].size = others[k].size
              /\ ops[k].weight = others[k].weight
              /\ ops[k].sample = others[k].sample
              /\ ColourOf(ops[k]) =
                   IF monochrome THEN Ink ELSE SampledColour(ops[k])
              /\ ColourOf(others[k]) =
                   IF monochrome THEN SampledColour(ops[k]) ELSE Ink
         ELSE ops[k] = others[k]

\* C5: a render and the render of the same call with monochrome toggled
\* visit the same cells with the same glyphs, and each cell has the same
\* alpha, size and weight; the colour of a cell is (26,26,26) in monochrome
\* mode and the sampled (r,g,b), rounded, otherwise.
C5_MonochromeChangesOnlyColour ==
    \A canvas \in Canvases :
        Painted(canvas) =>
            SameButColour(canvas.ops, toggledOps(canvas.call),
                          canvas.call.settings.monochrome)

\* a monochrome preview with a cell whose sample is not the ink
C5_Witness ==
    /\ Painted(previewCanvas)
    /\ previewCanvas.call.settings.monochrome
    /\ \E k \in 1..Len(previewCanvas.ops) :
         /\ IsGlyph(previewCanvas.ops[k])
         /\ SampledColour(previewCanvas.ops[k]) # Ink

(***************************************************************************)
(* C6.  The sample points and the bytes read.                              *)
(***************************************************************************)
\* sample points and indices of one cell, on a buffer of w x h pixels
SampleInside(sample, w, h) ==
    /\ sample.sampleX \in 0..(w - 1)
    /\ sample.sampleY2 % 2 = 0
    /\ (sample.sampleY2 \div 2) \in 0..(h - 1)
    /\ sample.pixelIndex =
         4 * ((sample.sampleY2 \div 2) * w + sample.sampleX)
    /\ sample.altIndex =
         4 * (Min(h - 1, (sample.sampleY2 \div 2) + 1) * w
              + Min(w - 1, sample.sampleX + 1))
    /\ sample.pixelIndex >= 0
    /\ sample.pixelIndex + 2 < 4 * w * h
    /\ sample.altIndex >= 0
    /\ sample.altIndex + 2 < 4 * w * h

\* C6: for every cell visited in a render, at every scale, the primary
\* sample point is an integer pixel of the w x h surface, the secondary
\* point is (x+1, y+1) clamped to it, and the bytes read at both indices
\* lie inside the pixel buffer.
C6_SamplesInsideBuffer ==
    \A canvas \in Canvases :
        \A k \in 1..Len(canvas.ops) :
            IsGlyph(canvas.ops[k]) =>
                SampleInside(canvas.ops[k].sample, canvas.width, canvas.height)

(***************************************************************************)
(* C7.  The order of the draw operations.                                  *)
(***************************************************************************)
IsUnderlay(o) == o.op = "drawImage"

\* the surface is cleared and filled with the background, and only glyphs
\* follow the first three operations
BackgroundThenGlyphs(canvas) ==
    /\ Len(canvas.ops) >= 3
    /\ canvas.ops[1].op = "clearRect"
    /\ canvas.ops[2].op = "fillRect"
    /\ canvas.ops[2].fillStyle = "#FAFAFA"
    /\ canvas.ops[2].width = canvas.width
    /\ canvas.ops[2].height2 \div 2 = canvas.height
    /\ \A k \in 4..Len(canvas.ops) : IsGlyph(canvas.ops[k])

\* C7 as claimed: the background fill comes first, then the underlay at
\* global alpha = underlay, issued if and only if underlay > 0, then the
\* glyphs.
C7_UnderlayOnlyIfPositive ==
    \A canvas \in Canvases :
        Painted(canvas) =>
          /\ \E k \in 1..Len(canvas.ops) :
               /\ canvas.ops[k].op = "fillRect"
               /\ canvas.ops[k].fillStyle = "#FAFAFA"
               /\ \A j \in (k + 1)..Len(canvas.ops) :
                    IsUnderlay(canvas.ops[j]) \/ IsGlyph(canvas.ops[j])
          /\ \A k \in 1..Len(canvas.ops) :
               IsUnderlay(canvas.ops[k]) =>
                 /\ canvas.ops[k].globalAlpha100 = canvas.call.settings.underlay100
                 /\ \A j \in 1..(k - 1) : ~IsGlyph(canvas.ops[j])
          /\ (\E k \in 1..Len(canvas.ops) : IsUnderlay(canvas.ops[k]))
               <=> canvas.call.settings.underlay100 > 0

\* C7 as amended: the surface is cleared and filled with #FAFAFA, then the
\* source image is composited at global alpha = underlay whatever underlay
\* is (at 0 the composite is issued and leaves the surface as it was), then
\* all glyphs are drawn.
C7_UnderlayAlwaysIssued ==
    \A canvas \in Canvases :
        Painted(canvas) =>
          /\ BackgroundThenGlyphs(canvas)
          /\ IsUnderlay(canvas.ops[3])
          /\ canvas.ops[3].image = canvas.call.imageElement
          /\ canvas.ops[3].globalAlpha100 = canvas.call.settings.underlay100

\* a preview painted with the underlay at 0
C7_Witness ==
    /\ Painted(previewCanvas)
    /\ previewCanvas.call.settings.underlay100 = 0
    /\ Glyphs(previewCanvas) # <<>>

(***************************************************************************)
(* C8.  Object URLs.                                                       *)
(***************************************************************************)
\* C8: when a newly loaded image replaces the current one, and when the
\* page unmounts, the object URL of the image that was current is revoked;
\* the object URL of the current image of a mounted page is never revoked.
C8_UrlRevokedWhenReplaced ==
    [][/\ (imageSrc # 0 /\ imageSrc' # imageSrc) => imageSrc \in revoked'
       /\ (imageSrc # 0 /\ mounted /\ ~mounted') => imageSrc \in revoked'
       /\ (imageSrc' # 0 /\ mounted') => imageSrc' \notin revoked'
       /\ revoked \subseteq revoked']_vars

\* an image has replaced another on a mounted page
C8_Witness ==
    /\ mounted
    /\ imageSrc # 0
    /\ revoked # {}
    /\ imageRef.url = imageSrc

(***************************************************************************)
(* C9.  The render-complete flag.                                          *)
(***************************************************************************)
\* C9: processed implies that the mounted preview canvas was painted by a
\* render of the current image.  Stated where every render can paint: the
\* image has a width and a height and the browser gives 2D contexts.
C9_ProcessedIsTruthful ==
    (/\ mounted
     /\ processed
     /\ context = "ok"
     /\ imageSize.width # 0
     /\ imageSize.height # 0) =>
        /\ presentKey # 0
        /\ Painted(previewCanvas)
        /\ previewCanvas.call.imageElement = imageRef
        /\ previewCanvas.call.imageSize = imageSize

(***************************************************************************)
(* C10.  Last selection wins.                                              *)
(***************************************************************************)
\* C10: once every load of the selected image files has completed, the
\* image in use is the one selected last, and imageRef, imageSize and
\* imageSrc describe the same image.
C10_LastSelectionWins ==
    (mounted /\ loading = {} /\ nextUrl > 1 /\ imageSrc # 0) =>
        /\ imageSrc = nextUrl - 1
        /\ imageRef.url = imageSrc
        /\ imageSize = [width |-> naturalWidth(imageRef.file),
                        height |-> naturalHeight(imageRef.file)]

=============================================================================
